---- MODULE Spec2Model ----
(***************************************************************************)
(* Model of the main-process child-process supervision of Rickube          *)
(* (src/main.js): the log-stream registry logProcesses, the port-forward   *)
(* registry portForwardProcesses, their IPC handlers, the child-process    *)
(* event handlers and the before-quit hook.                                *)
(***************************************************************************)
EXTENDS Integers, Sequences, FiniteSets, Bags, TLC

\* ---------------------------------------------------------------- bounds
MaxProcs == 2
MaxStopAllProcs == 3
MaxClock == 1
MaxCalls == 2
MaxChunks == 3
MaxTimers == 3
MaxInvocations == 4
MaxTerminals == 2
MaxCloseRequests == 3
MaxLineLen == 4
MaxEvents == 3
MaxLogRequests == 4
MaxPending == 2
ManyLines == 250
MaxBursts == 5

\* ---------------------------------------------------------------- inputs
\* A string is modelled as the sequence of its "-"-separated tokens, so
\* that a template literal joining strings with "-" is a concatenation.
ResourceTypes == {<<"svc">>}
Names == {<<"web", "0">>}
Namespaces == {"default"}
LocalPorts == {8080, 8081}
RemotePorts == {80}
Pods == {"pod-a"}
LogIds == {"l1", "l2"}
CrashCodes == {1}
\* what creating the child process comes to: the child runs; the spawn
\* fails with an error that is emitted on the child object later ('error');
\* or spawn()/exec() throws inside the handler's try block
SpawnOutcomes == {"running", "error", "throw"}

\* the remote ports of the forwards that are listed
ListRemotePorts == {80, 443}

\* the ids and ports of the sessions whose output is followed
StreamLogIds == {"l1"}
StreamPorts == {8080}

NoPort == 0
\* this.activeTerminalId = null
NoTerminal == <<>>
NullCode == -1
maxLines == 1000
NoProbe == [failed |-> FALSE, stdout |-> <<>>]
NoLogId == <<>>
NoContent == [exists |-> FALSE, inContainer |-> FALSE, children |-> <<>>]
NoEvent == [kind |-> "none", logId |-> NoLogId, data |-> <<>>]

VARIABLES
  now,                    \* Date.now(), in milliseconds
  mainWindow,             \* TRUE while mainWindow is a window, FALSE when null
  procs,                  \* every child process ever created, by creation order
  logProcesses,           \* Map logId -> child
  portForwardProcesses,   \* Map forwardId -> {process, resourceType, ...}
  stopCalls,              \* portforward:stop invocations suspended at their await
  stopAllCall,            \* the portforward:stopAll invocation in progress
  sent,                   \* events pushed with mainWindow.webContents.send
  reply,                  \* value returned by the IPC handler that returned in this step
  quit                    \* TRUE once before-quit has run

\* the host: the listener probe run by portforward:checkPort
VARIABLES
  probed                  \* what the last probe command gave: failure, or its stdout

\* the renderer process: PollerService (src/services/poller.js)
VARIABLES
  intervals,              \* Map key -> intervalId
  timers,                 \* every interval setInterval has created, by intervalId
  invoked                 \* the invocations of poller callbacks, in order

\* the renderer process: TerminalComponent (src/renderer/components/terminal.js)
VARIABLES
  terminals,              \* Map terminalId -> terminal
  terminalCounter,        \* this.terminalCounter
  activeTerminalId,       \* this.activeTerminalId
  termCalls,              \* createTerminal and closeTerminal calls suspended at their await
  closeRequests,          \* the terminal:close requests sent to the main process, in order
  exited                  \* the terminal ids whose terminal:exit event has been delivered

\* the renderer process: LogsComponent (src/renderer/components/logs.js)
VARIABLES
  currentLogId,           \* this.currentLogId
  logContent,             \* this.logContent: whether it exists and is in the container, its children
  isPaused,               \* this.isPaused
  logBuffer,              \* this.logBuffer
  logCalls,               \* startLogs calls suspended at an IPC await, by request order
  microtasks,             \* startLogs calls whose awaited promise is settled, by queue order
  logRequests,            \* the logs:start and logs:stop requests sent to the main process
  event,                  \* the logs event the listeners handled in this step
  serial,                 \* number of logs events delivered
  arrived,                \* data chunks received for the current id since the display was
                          \* reset, less those a stopLogs dropped from the buffer
  appended                \* every line appended to the children of this.logContent

\* the renderer process: PortForwardManager
\* (src/renderer/components/portForwardManager.js)
VARIABLES
  activeForwards,         \* the keys of this.activeForwards
  pfReplies,              \* replies to the manager's calls on their way to the renderer,
                          \* each with the number of events pushed before it
  pfSeen                  \* number of pushed events the renderer has received

mainVars == <<now, mainWindow, procs, logProcesses, portForwardProcesses,
              stopCalls, stopAllCall, sent, reply, quit>>
pollerVars == <<intervals, timers, invoked>>
terminalVars == <<terminals, terminalCounter, activeTerminalId, termCalls,
                  closeRequests, exited>>
logVars == <<currentLogId, logContent, isPaused, logBuffer, logCalls, microtasks,
             logRequests, event, serial, arrived, appended>>
managerVars == <<activeForwards, pfReplies, pfSeen>>
hostVars == <<probed>>
notPollerVars == <<hostVars, terminalVars, logVars, managerVars>>
notTerminalVars == <<hostVars, pollerVars, logVars, managerVars>>
notLogVars == <<hostVars, pollerVars, terminalVars, managerVars>>
notManagerVars == <<hostVars, pollerVars, terminalVars, logVars>>
rendererVars == <<pollerVars, terminalVars, logVars, managerVars>>
outerVars == <<hostVars, rendererVars>>
vars == <<mainVars, outerVars>>

\* ---------------------------------------------------------------- helpers
Pids == 1..Len(procs)

NoCall == [pc |-> "idle"]
NoReply == [op |-> "none"]

\* `pf-${resourceType}-${name}-${localPort}-${Date.now()}`
ForwardId(resourceType, name, localPort, t) ==
  <<"pf">> \o resourceType \o name \o <<localPort>> \o <<t>>

\* new Date().toISOString()
IsoString(t) == <<"ISO", t>>

\* Map.prototype.delete
MapDelete(m, k) == [x \in DOMAIN m \ {k} |-> m[x]]

\* Map.prototype.set: an existing key keeps its place in the iteration
\* order (field ord) and gets the new value; a new key goes to the end.
MapSet(m, k, v, ord) ==
  [x \in DOMAIN m \cup {k} |->
     IF x = k
       THEN [v EXCEPT !.ord = IF k \in DOMAIN m THEN m[k].ord ELSE ord]
       ELSE m[x]]

\* child.kill(signal) on the handle held by this process: the child is
\* terminated when it is still running; its 'exit' event comes later.
\* The listener inside WSL is not reached by the signal.
Kill(ps, p, signal) ==
  [ps EXCEPT ![p] =
     [@ EXCEPT !.sig = signal,
               !.local = IF @ = "running" THEN "terminated" ELSE @,
               !.code = IF ps[p].local = "running" THEN NullCode ELSE @]]

\* wsl bash -lc "kill $(lsof -t -i:${port}) 2>/dev/null || true":
\* every process inside WSL that holds the port is killed, and the child
\* that carries it ends with it.
KillListeners(ps, port) ==
  [p \in DOMAIN ps |->
     IF ps[p].remote = "listening" /\ ps[p].port = port
       THEN [ps[p] EXCEPT !.remote = "dead",
                          !.local = IF @ = "running" THEN "terminated" ELSE @,
                          !.code = IF ps[p].local = "running" THEN 1 ELSE @]
       ELSE ps[p]]

\* ---------------------------------------------------------------- initial state
Init ==
  /\ now = 0
  /\ mainWindow = TRUE
  /\ procs = <<>>
  /\ logProcesses = <<>>
  /\ portForwardProcesses = <<>>
  /\ stopCalls = EmptyBag
  /\ stopAllCall = NoCall
  /\ sent = <<>>
  /\ reply = NoReply
  /\ quit = FALSE
  /\ probed = NoProbe
  /\ intervals = <<>>
  /\ timers = <<>>
  /\ invoked = <<>>
  /\ terminals = <<>>
  /\ terminalCounter = 0
  /\ activeTerminalId = NoTerminal
  /\ termCalls = EmptyBag
  /\ closeRequests = <<>>
  /\ exited = {}
  /\ currentLogId = NoLogId
  /\ logContent = NoContent
  /\ isPaused = FALSE
  /\ logBuffer = <<>>
  /\ logCalls = <<>>
  /\ microtasks = <<>>
  /\ logRequests = <<>>
  /\ event = NoEvent
  /\ serial = 0
  /\ arrived = <<>>
  /\ appended = <<>>
  /\ activeForwards = {}
  /\ pfReplies = <<>>
  /\ pfSeen = 0

\* ---------------------------------------------------------------- environment
\* Date.now() advances; it is read by portforward:start only, so the
\* clock is stopped once no further start can come.
TickWithin(limit) ==
  /\ ~quit
  /\ now < MaxClock
  /\ Len(procs) < limit
  /\ now' = now + 1
  /\ reply' = NoReply
  /\ UNCHANGED <<mainWindow, procs, logProcesses, portForwardProcesses, stopCalls, stopAllCall, sent, quit>>
  /\ UNCHANGED outerVars

Tick == TickWithin(MaxProcs)

\* mainWindow.on('closed')
WindowClosed ==
  /\ ~quit
  /\ mainWindow
  /\ mainWindow' = FALSE
  /\ reply' = NoReply
  /\ UNCHANGED <<now, procs, logProcesses, portForwardProcesses, stopCalls, stopAllCall, sent, quit>>
  /\ UNCHANGED outerVars

\* kubectl port-forward inside WSL tries to listen on its local port: it
\* fails and exits when another process in WSL already holds the port.
ProcBind(p) ==
  /\ ~quit
  /\ procs[p].kind = "pf"
  /\ procs[p].local = "running"
  /\ procs[p].remote = "starting"
  /\ IF \E q \in Pids : procs[q].remote = "listening" /\ procs[q].port = procs[p].port
       THEN procs' = [procs EXCEPT ![p] =
                        [@ EXCEPT !.remote = "dead", !.local = "terminated", !.code = 1]]
       ELSE procs' = [procs EXCEPT ![p] = [@ EXCEPT !.remote = "listening"]]
  /\ reply' = NoReply
  /\ UNCHANGED <<now, mainWindow, logProcesses, portForwardProcesses, stopCalls, stopAllCall, sent, quit>>
  /\ UNCHANGED outerVars

\* a child ends on its own (crash, upstream connection dropped)
ProcDie(p, code) ==
  /\ ~quit
  /\ procs[p].local = "running"
  /\ procs' = [procs EXCEPT ![p] =
                 [@ EXCEPT !.local = "terminated", !.code = code,
                           !.remote = IF @ = "none" THEN "none" ELSE "dead"]]
  /\ reply' = NoReply
  /\ UNCHANGED <<now, mainWindow, logProcesses, portForwardProcesses, stopCalls, stopAllCall, sent, quit>>
  /\ UNCHANGED outerVars

\* the i-th chunk that child p writes to its stdout
Chunk(p, i) == <<p, i>>

\* the string a 'data' handler gets or makes from a chunk (exec decodes
\* the stream as utf8; portforward:start calls data.toString())
Utf8(chunk) == [str |-> chunk]

\* a running child writes its next chunk to its stdout pipe
ProcWrite(p) ==
  /\ ~quit
  /\ procs[p].local = "running"
  /\ procs[p].out < MaxChunks
  /\ procs' = [procs EXCEPT ![p] = [@ EXCEPT !.out = @ + 1]]
  /\ reply' = NoReply
  /\ UNCHANGED <<now, mainWindow, logProcesses, portForwardProcesses, stopCalls, stopAllCall, sent, quit>>
  /\ UNCHANGED outerVars

\* ---------------------------------------------------------------- log streams
\* mutant of LogsStart: one stream per pod, the earlier streams of the same
\* pod and namespace are killed and unregistered
LogsStartExclusive(podName, namespace, logId, outcome) ==
  /\ ~quit /\ mainWindow
  /\ Len(procs) < MaxProcs
  /\ IF outcome = "throw"
       THEN /\ reply' = [op |-> "logs:start", id |-> <<logId>>, success |-> FALSE,
                         error |-> "spawn"]
            /\ UNCHANGED <<procs, logProcesses>>
       ELSE LET child == Len(procs) + 1
                same == {l \in DOMAIN logProcesses :
                           procs[logProcesses[l]].target = <<podName, namespace>>}
            IN
            /\ procs' = Append(
                 [p \in DOMAIN procs |->
                    IF \E l \in same : logProcesses[l] = p
                      THEN Kill(procs, p, "SIGTERM")[p] ELSE procs[p]],
                 [kind |-> "log", id |-> <<logId>>, target |-> <<podName, namespace>>,
                  port |-> NoPort,
                  local |-> IF outcome = "running" THEN "running" ELSE "spawnfail",
                  remote |-> "none", sig |-> "none", code |-> NullCode,
                  out |-> 0, got |-> 0])
            /\ logProcesses' = [x \in (DOMAIN logProcesses \ same) \cup {logId} |->
                                  IF x = logId THEN child ELSE logProcesses[x]]
            /\ reply' = [op |-> "logs:start", id |-> <<logId>>, success |-> TRUE]
  /\ UNCHANGED <<now, mainWindow, portForwardProcesses, stopCalls, stopAllCall,
                 sent, quit>>
  /\ UNCHANGED outerVars

\* ipcMain.handle('logs:start')
LogsStart(podName, namespace, logId, outcome) ==
  /\ ~quit /\ mainWindow
  /\ Len(procs) < MaxProcs
  /\ IF outcome = "throw"
       THEN /\ reply' = [op |-> "logs:start", id |-> <<logId>>, success |-> FALSE,
                         error |-> "spawn"]
            /\ UNCHANGED <<procs, logProcesses>>
       ELSE LET child == Len(procs) + 1 IN
            /\ procs' = Append(procs,
                 [kind |-> "log", id |-> <<logId>>, target |-> <<podName, namespace>>,
                  port |-> NoPort,
                  local |-> IF outcome = "running" THEN "running" ELSE "spawnfail",
                  remote |-> "none", sig |-> "none", code |-> NullCode,
                  out |-> 0, got |-> 0])
            /\ logProcesses' = [x \in DOMAIN logProcesses \cup {logId} |->
                                  IF x = logId THEN child ELSE logProcesses[x]]
            /\ reply' = [op |-> "logs:start", id |-> <<logId>>, success |-> TRUE]
  /\ UNCHANGED <<now, mainWindow, portForwardProcesses, stopCalls, stopAllCall,
                 sent, quit>>
  /\ UNCHANGED outerVars

\* mutant of LogsStop: the handler kills every tracked log child and
\* empties the Map
LogsStopEvery(logId) ==
  /\ ~quit /\ mainWindow
  /\ IF logId \in DOMAIN logProcesses
       THEN /\ procs' = [p \in DOMAIN procs |->
                          IF \E l \in DOMAIN logProcesses : logProcesses[l] = p
                            THEN Kill(procs, p, "SIGTERM")[p] ELSE procs[p]]
            /\ logProcesses' = <<>>
            /\ reply' = [op |-> "logs:stop", id |-> <<logId>>, success |-> TRUE]
       ELSE /\ reply' = [op |-> "logs:stop", id |-> <<logId>>, success |-> FALSE,
                         error |-> "Log process not found"]
            /\ UNCHANGED <<procs, logProcesses>>
  /\ UNCHANGED <<now, mainWindow, portForwardProcesses, stopCalls, stopAllCall,
                 sent, quit>>
  /\ UNCHANGED outerVars

\* ipcMain.handle('logs:stop')
LogsStop(logId) ==
  /\ ~quit /\ mainWindow
  /\ IF logId \in DOMAIN logProcesses
       THEN /\ procs' = Kill(procs, logProcesses[logId], "SIGTERM")
            /\ logProcesses' = MapDelete(logProcesses, logId)
            /\ reply' = [op |-> "logs:stop", id |-> <<logId>>, success |-> TRUE]
       ELSE /\ reply' = [op |-> "logs:stop", id |-> <<logId>>, success |-> FALSE,
                             error |-> "Log process not found"]
            /\ UNCHANGED <<procs, logProcesses>>
  /\ UNCHANGED <<now, mainWindow, portForwardProcesses, stopCalls, stopAllCall,
                 sent, quit>>
  /\ UNCHANGED outerVars

\* child.stdout.on('data') of logs:start: the stream hands the chunks over
\* in the order they were written, also those still in the pipe when the
\* child has ended and its 'exit' event has been emitted.  With mainWindow
\* null the send throws.
LogOnData(p) ==
  /\ ~quit
  /\ procs[p].kind = "log"
  /\ procs[p].got < procs[p].out
  /\ procs' = [procs EXCEPT ![p] = [@ EXCEPT !.got = @ + 1]]
  /\ sent' = IF mainWindow
               THEN Append(sent, [type |-> "logs:data", id |-> procs[p].id,
                                  data |-> Utf8(Chunk(p, procs[p].got + 1))])
               ELSE sent
  /\ reply' = NoReply
  /\ UNCHANGED <<now, mainWindow, logProcesses, portForwardProcesses, stopCalls, stopAllCall, quit>>
  /\ UNCHANGED outerVars

\* child.on('exit') of logs:start.  With mainWindow null the send throws
\* and the delete after it is not reached.
LogOnExit(p) ==
  /\ ~quit
  /\ procs[p].kind = "log"
  /\ procs[p].local = "terminated"
  /\ procs' = [procs EXCEPT ![p] = [@ EXCEPT !.local = "reaped"]]
  /\ IF mainWindow
       THEN /\ sent' = Append(sent, [type |-> "logs:exit", id |-> procs[p].id])
            /\ logProcesses' = MapDelete(logProcesses, procs[p].id[1])
       ELSE UNCHANGED <<sent, logProcesses>>
  /\ reply' = NoReply
  /\ UNCHANGED <<now, mainWindow, portForwardProcesses, stopCalls, stopAllCall, quit>>
  /\ UNCHANGED outerVars

\* ---------------------------------------------------------------- port forwards
\* the entries of a Map in iteration (insertion) order, after position last
RECURSIVE EntriesAfter(_, _)
EntriesAfter(m, last) ==
  LET later == {k \in DOMAIN m : m[k].ord > last} IN
    IF later = {} THEN <<>>
    ELSE LET k == CHOOSE x \in later : \A y \in later : m[x].ord <= m[y].ord
         IN <<k>> \o EntriesAfter(m, m[k].ord)

\* ipcMain.handle('portforward:start').  With outcome "error" the child
\* object is returned by spawn and emits 'error' later instead of running;
\* with outcome "throw" the catch block returns the error.  At most limit
\* child processes are created in a behaviour.
PfStartWithin(limit, resourceType, name, namespace, localPort, remotePort, outcome) ==
  /\ ~quit /\ mainWindow
  /\ Len(procs) < limit
  /\ LET forwardId == ForwardId(resourceType, name, localPort, now)
         child == Len(procs) + 1
     IN
       IF outcome = "throw"
         THEN /\ reply' = [op |-> "portforward:start", id |-> forwardId,
                           success |-> FALSE, error |-> "spawn"]
              /\ UNCHANGED <<procs, portForwardProcesses>>
         ELSE /\ procs' = Append(procs,
                   [kind |-> "pf", id |-> forwardId, target |-> <<namespace, remotePort>>,
                    port |-> localPort,
                    local |-> IF outcome = "running" THEN "running" ELSE "spawnfail",
                    remote |-> IF outcome = "running" THEN "starting" ELSE "dead",
                    sig |-> "none", code |-> NullCode,
                    out |-> 0, got |-> 0])
              /\ portForwardProcesses' = MapSet(portForwardProcesses, forwardId,
                   [process |-> child, resourceType |-> resourceType, name |-> name,
                    namespace |-> namespace, localPort |-> localPort,
                    remotePort |-> remotePort, startTime |-> IsoString(now),
                    ord |-> child], child)
              /\ reply' = [op |-> "portforward:start", id |-> forwardId,
                           success |-> TRUE]
  /\ UNCHANGED <<now, mainWindow, logProcesses, stopCalls, stopAllCall, sent, quit>>
  /\ UNCHANGED outerVars

PfStart(resourceType, name, namespace, localPort, remotePort, outcome) ==
  PfStartWithin(MaxProcs, resourceType, name, namespace, localPort, remotePort, outcome)

\* mutant of PfOnData: the chunks waiting in the pipe are handed over
\* newest first
PfOnDataNewest(p) ==
  /\ ~quit
  /\ procs[p].kind = "pf"
  /\ procs[p].got < procs[p].out
  /\ procs' = [procs EXCEPT ![p] = [@ EXCEPT !.got = @ + 1]]
  /\ sent' = IF mainWindow
               THEN Append(sent, [type |-> "portforward:data", id |-> procs[p].id,
                                  data |-> Utf8(Chunk(p, procs[p].out - procs[p].got))])
               ELSE sent
  /\ reply' = NoReply
  /\ UNCHANGED <<now, mainWindow, logProcesses, portForwardProcesses, stopCalls, stopAllCall, quit>>
  /\ UNCHANGED outerVars

\* child.stdout.on('data') of portforward:start
PfOnData(p) ==
  /\ ~quit
  /\ procs[p].kind = "pf"
  /\ procs[p].got < procs[p].out
  /\ procs' = [procs EXCEPT ![p] = [@ EXCEPT !.got = @ + 1]]
  /\ sent' = IF mainWindow
               THEN Append(sent, [type |-> "portforward:data", id |-> procs[p].id,
                                  data |-> Utf8(Chunk(p, procs[p].got + 1))])
               ELSE sent
  /\ reply' = NoReply
  /\ UNCHANGED <<now, mainWindow, logProcesses, portForwardProcesses, stopCalls, stopAllCall, quit>>
  /\ UNCHANGED outerVars

\* mutant of PfOnExit: the event is pushed and the entry is kept
PfOnExitKeep(p) ==
  /\ ~quit
  /\ procs[p].kind = "pf"
  /\ procs[p].local = "terminated"
  /\ procs' = [procs EXCEPT ![p] = [@ EXCEPT !.local = "reaped"]]
  /\ sent' = IF mainWindow
               THEN Append(sent, [type |-> "portforward:exit", id |-> procs[p].id,
                                  code |-> procs[p].code])
               ELSE sent
  /\ reply' = NoReply
  /\ UNCHANGED <<now, mainWindow, logProcesses, portForwardProcesses, stopCalls,
                 stopAllCall, quit>>
  /\ UNCHANGED outerVars

\* mutant of PfOnExit: the tunnel is started again with the parameters of
\* the entry that is removed
PfOnExitRestart(p) ==
  /\ ~quit
  /\ procs[p].kind = "pf"
  /\ procs[p].local = "terminated"
  /\ sent' = IF mainWindow
               THEN Append(sent, [type |-> "portforward:exit", id |-> procs[p].id,
                                  code |-> procs[p].code])
               ELSE sent
  /\ IF procs[p].id \in DOMAIN portForwardProcesses /\ Len(procs) < MaxProcs
       THEN LET child == Len(procs) + 1 IN
            /\ procs' = Append([procs EXCEPT ![p] = [@ EXCEPT !.local = "reaped"]],
                               [procs[p] EXCEPT !.local = "running", !.remote = "starting",
                                                !.sig = "none", !.code = NullCode,
                                                !.out = 0, !.got = 0])
            /\ portForwardProcesses' =
                 [portForwardProcesses EXCEPT ![procs[p].id] =
                    [@ EXCEPT !.process = child]]
       ELSE /\ procs' = [procs EXCEPT ![p] = [@ EXCEPT !.local = "reaped"]]
            /\ portForwardProcesses' = MapDelete(portForwardProcesses, procs[p].id)
  /\ reply' = NoReply
  /\ UNCHANGED <<now, mainWindow, logProcesses, stopCalls, stopAllCall, quit>>
  /\ UNCHANGED outerVars

\* child.on('exit') of portforward:start
PfOnExit(p) ==
  /\ ~quit
  /\ procs[p].kind = "pf"
  /\ procs[p].local = "terminated"
  /\ procs' = [procs EXCEPT ![p] = [@ EXCEPT !.local = "reaped"]]
  /\ sent' = IF mainWindow
               THEN Append(sent, [type |-> "portforward:exit", id |-> procs[p].id,
                                  code |-> procs[p].code])
               ELSE sent
  /\ portForwardProcesses' = MapDelete(portForwardProcesses, procs[p].id)
  /\ reply' = NoReply
  /\ UNCHANGED <<now, mainWindow, logProcesses, stopCalls, stopAllCall, quit>>
  /\ UNCHANGED outerVars

\* child.on('error') of portforward:start
PfOnError(p) ==
  /\ ~quit
  /\ procs[p].kind = "pf"
  /\ procs[p].local = "spawnfail"
  /\ procs' = [procs EXCEPT ![p] = [@ EXCEPT !.local = "reaped"]]
  /\ sent' = IF mainWindow
               THEN Append(sent, [type |-> "portforward:error", id |-> procs[p].id,
                                  code |-> NullCode])
               ELSE sent
  /\ portForwardProcesses' = MapDelete(portForwardProcesses, procs[p].id)
  /\ reply' = NoReply
  /\ UNCHANGED <<now, mainWindow, logProcesses, stopCalls, stopAllCall, quit>>
  /\ UNCHANGED outerVars

\* mutant of PfStopCall: the local child is killed before the kill-by-port
\* command is issued
PfStopCallKillFirst(forwardId) ==
  /\ ~quit /\ mainWindow
  /\ IF forwardId \in DOMAIN portForwardProcesses
       THEN /\ BagCardinality(stopCalls) < MaxCalls
            /\ LET forward == portForwardProcesses[forwardId] IN
                 /\ stopCalls' = stopCalls (+) SetToBag({
                       [id |-> forwardId, process |-> forward.process,
                        port |-> forward.localPort, remote |-> "pending"]})
                 /\ procs' = Kill(procs, forward.process, "SIGKILL")
            /\ reply' = NoReply
       ELSE /\ reply' = [op |-> "portforward:stop", id |-> forwardId,
                         success |-> FALSE, error |-> "Port forward not found"]
            /\ UNCHANGED <<procs, stopCalls>>
  /\ UNCHANGED <<now, mainWindow, logProcesses, portForwardProcesses,
                 stopAllCall, sent, quit>>
  /\ UNCHANGED outerVars

\* ipcMain.handle('portforward:stop'), up to its await: the entry is
\* looked up and the kill-by-port command handed to execAsync
PfStopCall(forwardId) ==
  /\ ~quit /\ mainWindow
  /\ IF forwardId \in DOMAIN portForwardProcesses
       THEN /\ BagCardinality(stopCalls) < MaxCalls
            /\ LET forward == portForwardProcesses[forwardId] IN
                 stopCalls' = stopCalls (+) SetToBag({
                     [id |-> forwardId, process |-> forward.process,
                      port |-> forward.localPort, remote |-> "pending"]})
            /\ reply' = NoReply
       ELSE /\ reply' = [op |-> "portforward:stop", id |-> forwardId,
                         success |-> FALSE, error |-> "Port forward not found"]
            /\ UNCHANGED stopCalls
  /\ UNCHANGED <<now, mainWindow, procs, logProcesses, portForwardProcesses,
                 stopAllCall, sent, quit>>
  /\ UNCHANGED outerVars

\* the kill-by-port command of a suspended portforward:stop runs inside
\* WSL (ok) or fails to run (~ok)
PfStopExec(c, ok) ==
  /\ ~quit
  /\ BagIn(c, stopCalls)
  /\ c.remote = "pending"
  /\ stopCalls' = (stopCalls (-) SetToBag({c})) (+)
                    SetToBag({[c EXCEPT !.remote = IF ok THEN "done" ELSE "failed"]})
  /\ procs' = IF ok THEN KillListeners(procs, c.port) ELSE procs
  /\ reply' = NoReply
  /\ UNCHANGED <<now, mainWindow, logProcesses, portForwardProcesses, stopAllCall,
                 sent, quit>>
  /\ UNCHANGED outerVars

\* mutant of PfStopResume: the handler returns without the delete
PfStopResumeKeep(c) ==
  /\ ~quit
  /\ BagIn(c, stopCalls)
  /\ c.remote # "pending"
  /\ procs' = Kill(procs, c.process, "SIGKILL")
  /\ reply' = [op |-> "portforward:stop", id |-> c.id, success |-> TRUE,
               remote |-> c.remote, process |-> c.process]
  /\ stopCalls' = stopCalls (-) SetToBag({c})
  /\ UNCHANGED <<now, mainWindow, logProcesses, portForwardProcesses, stopAllCall,
                 sent, quit>>
  /\ UNCHANGED outerVars

\* mutant of PfStopResume: the failure of the kill-by-port command is not
\* caught, and the handler rejects before the local kill and the delete
PfStopResumeAbort(c) ==
  /\ ~quit
  /\ BagIn(c, stopCalls)
  /\ c.remote # "pending"
  /\ IF c.remote = "failed"
       THEN /\ reply' = [op |-> "portforward:stop", id |-> c.id, success |-> FALSE,
                         error |-> "Command failed"]
            /\ UNCHANGED <<procs, portForwardProcesses>>
       ELSE /\ procs' = Kill(procs, c.process, "SIGKILL")
            /\ portForwardProcesses' = MapDelete(portForwardProcesses, c.id)
            /\ reply' = [op |-> "portforward:stop", id |-> c.id, success |-> TRUE,
                         remote |-> c.remote, process |-> c.process]
  /\ stopCalls' = stopCalls (-) SetToBag({c})
  /\ UNCHANGED <<now, mainWindow, logProcesses, stopAllCall, sent, quit>>
  /\ UNCHANGED outerVars

\* ipcMain.handle('portforward:stop'), from its await to its return
PfStopResume(c) ==
  /\ ~quit
  /\ BagIn(c, stopCalls)
  /\ c.remote # "pending"
  /\ procs' = Kill(procs, c.process, "SIGKILL")
  /\ portForwardProcesses' = MapDelete(portForwardProcesses, c.id)
  /\ reply' = [op |-> "portforward:stop", id |-> c.id, success |-> TRUE,
               remote |-> c.remote, process |-> c.process]
  /\ stopCalls' = stopCalls (-) SetToBag({c})
  /\ UNCHANGED <<now, mainWindow, logProcesses, stopAllCall, sent, quit>>
  /\ UNCHANGED outerVars

\* mutant of PortForwardList: the entry of the first child is left out
PortForwardListSkipFirst ==
  LET keys == EntriesAfter(portForwardProcesses, 1) IN
    [i \in 1..Len(keys) |->
       LET value == portForwardProcesses[keys[i]] IN
         [forwardId |-> keys[i], resourceType |-> value.resourceType,
          name |-> value.name, namespace |-> value.namespace,
          localPort |-> value.localPort, remotePort |-> value.remotePort,
          startTime |-> value.startTime]]

\* ipcMain.handle('portforward:list')
PortForwardList ==
  LET keys == EntriesAfter(portForwardProcesses, 0) IN
    [i \in 1..Len(keys) |->
       LET value == portForwardProcesses[keys[i]] IN
         [forwardId |-> keys[i], resourceType |-> value.resourceType,
          name |-> value.name, namespace |-> value.namespace,
          localPort |-> value.localPort, remotePort |-> value.remotePort,
          startTime |-> value.startTime]]

\* ipcMain.handle('portforward:stopAll'): the for...of loop walks the live
\* Map; iterate(last) is the loop head after the entry at position last:
\* the next entry is bound and its kill-by-port command awaited, or the
\* loop is over, the Map is cleared and the handler returns.
StopAllIterate(ps, last, failed) ==
  LET rest == EntriesAfter(portForwardProcesses, last) IN
    IF rest = <<>>
      THEN /\ procs' = ps
           /\ portForwardProcesses' = <<>>
           /\ stopAllCall' = NoCall
           /\ reply' = [op |-> "portforward:stopAll", success |-> TRUE,
                        failed |-> failed,
                        snap |-> IF last = 0 THEN {} ELSE stopAllCall.snap]
      ELSE LET forward == portForwardProcesses[rest[1]] IN
           /\ procs' = ps
           /\ stopAllCall' = [pc |-> "await", id |-> rest[1], last |-> forward.ord,
                              process |-> forward.process, port |-> forward.localPort,
                              remote |-> "pending", failed |-> failed,
                              snap |-> IF last = 0
                                         THEN {portForwardProcesses[k].process :
                                                 k \in DOMAIN portForwardProcesses}
                                         ELSE stopAllCall.snap]
           /\ reply' = NoReply
           /\ UNCHANGED portForwardProcesses

PfStopAllCall ==
  /\ ~quit /\ mainWindow
  /\ stopAllCall = NoCall
  /\ StopAllIterate(procs, 0, {})
  /\ UNCHANGED <<now, mainWindow, logProcesses, stopCalls, sent, quit>>
  /\ UNCHANGED outerVars

\* the kill-by-port command of the current iteration runs or fails to run
PfStopAllExec(ok) ==
  /\ ~quit
  /\ stopAllCall.pc = "await"
  /\ stopAllCall.remote = "pending"
  /\ stopAllCall' = [stopAllCall EXCEPT !.remote = IF ok THEN "done" ELSE "failed"]
  /\ procs' = IF ok THEN KillListeners(procs, stopAllCall.port) ELSE procs
  /\ reply' = NoReply
  /\ UNCHANGED <<now, mainWindow, logProcesses, portForwardProcesses, stopCalls, sent, quit>>
  /\ UNCHANGED outerVars

\* the rest of the iteration after its await, and the next loop head
PfStopAllResume ==
  /\ ~quit
  /\ stopAllCall.pc = "await"
  /\ stopAllCall.remote # "pending"
  /\ StopAllIterate(Kill(procs, stopAllCall.process, "SIGKILL"), stopAllCall.last,
                    IF stopAllCall.remote = "failed"
                      THEN stopAllCall.failed \cup {stopAllCall.process}
                      ELSE stopAllCall.failed)
  /\ UNCHANGED <<now, mainWindow, logProcesses, stopCalls, sent, quit>>
  /\ UNCHANGED outerVars

\* ---------------------------------------------------------------- shutdown
RECURSIVE KillAll(_, _, _)
KillAll(ps, pids, signal) ==
  IF pids = {} THEN ps
  ELSE LET p == CHOOSE x \in pids : TRUE
       IN KillAll(Kill(ps, p, signal), pids \ {p}, signal)

\* app.on('before-quit')
BeforeQuit ==
  /\ ~quit
  /\ procs' = KillAll(procs, {portForwardProcesses[k].process :
                                k \in DOMAIN portForwardProcesses}, "SIGTERM")
  /\ portForwardProcesses' = <<>>
  /\ quit' = TRUE
  /\ reply' = NoReply
  /\ UNCHANGED <<now, mainWindow, logProcesses, stopCalls, stopAllCall, sent>>
  /\ UNCHANGED outerVars

\* ---------------------------------------------------------------- PollerService
PollerKeys == {"pods", "metrics"}

\* how the promise returned by a poller callback settles
Settles == {"resolves", "rejects"}

\* PollerService.isRunning
IsRunning(key) == key \in DOMAIN intervals

\* clearInterval(intervalId)
ClearInterval(ts, intervalId) ==
  [ts EXCEPT ![intervalId] = [@ EXCEPT !.live = FALSE]]

\* PollerService.stop as a function of the state; setInterval returns
\* positive numbers, so that if (intervalId) is true of every id stored
StopKey(key) ==
  IF key \in DOMAIN intervals /\ intervals[key] # 0
    THEN [intervals |-> MapDelete(intervals, key),
          timers |-> ClearInterval(timers, intervals[key])]
    ELSE [intervals |-> intervals, timers |-> timers]

\* mutant of PollerStart: the poller of the key is not stopped first
PollerStartKeep(key, settles) ==
  /\ Len(timers) < MaxTimers
  /\ Len(invoked) < MaxInvocations
  /\ LET intervalId == Len(timers) + 1 IN
       /\ invoked' = Append(invoked, [key |-> key, start |-> intervalId,
                                      via |-> "start", settles |-> settles])
       /\ timers' = Append(timers, [key |-> key, live |-> TRUE])
       /\ intervals' = [x \in DOMAIN intervals \cup {key} |->
                          IF x = key THEN intervalId ELSE intervals[x]]
  /\ UNCHANGED <<mainVars, notPollerVars>>

\* PollerService.start: the poller of the key is stopped, the callback is
\* called once and its rejection caught, and a new interval is set and
\* recorded.  intervalMs sets the time between two ticks, which the model
\* leaves open.
PollerStart(key, settles) ==
  /\ Len(timers) < MaxTimers
  /\ Len(invoked) < MaxInvocations
  /\ LET stopped == StopKey(key)
         intervalId == Len(timers) + 1
     IN
       /\ invoked' = Append(invoked, [key |-> key, start |-> intervalId,
                                      via |-> "start", settles |-> settles])
       /\ timers' = Append(stopped.timers, [key |-> key, live |-> TRUE])
       /\ intervals' = [x \in DOMAIN stopped.intervals \cup {key} |->
                          IF x = key THEN intervalId ELSE stopped.intervals[x]]
  /\ UNCHANGED <<mainVars, notPollerVars>>

\* PollerService.stop
PollerStop(key) ==
  /\ intervals' = StopKey(key).intervals
  /\ timers' = StopKey(key).timers
  /\ UNCHANGED <<invoked, mainVars, notPollerVars>>

\* PollerService.stopAll
PollerStopAll ==
  /\ timers' = [i \in DOMAIN timers |->
                  IF \E k \in DOMAIN intervals : intervals[k] = i
                    THEN [timers[i] EXCEPT !.live = FALSE] ELSE timers[i]]
  /\ intervals' = <<>>
  /\ UNCHANGED <<invoked, mainVars, notPollerVars>>

\* mutant of TimerTick: a rejected invocation ends the poller
TimerTickCancel(intervalId, settles) ==
  /\ timers[intervalId].live
  /\ Len(invoked) < MaxInvocations
  /\ invoked' = Append(invoked, [key |-> timers[intervalId].key, start |-> intervalId,
                                 via |-> "tick", settles |-> settles])
  /\ IF settles = "rejects"
       THEN /\ timers' = ClearInterval(timers, intervalId)
            /\ intervals' = MapDelete(intervals, timers[intervalId].key)
       ELSE UNCHANGED <<intervals, timers>>
  /\ UNCHANGED <<mainVars, notPollerVars>>

\* the function given to setInterval, run at a tick of a live interval
TimerTick(intervalId, settles) ==
  /\ timers[intervalId].live
  /\ Len(invoked) < MaxInvocations
  /\ invoked' = Append(invoked, [key |-> timers[intervalId].key, start |-> intervalId,
                                 via |-> "tick", settles |-> settles])
  /\ UNCHANGED <<intervals, timers, mainVars, notPollerVars>>

\* ---------------------------------------------------------------- TerminalComponent
\* `terminal-${++this.terminalCounter}`
TerminalId(n) == <<"terminal", n>>

\* Array.from(this.terminals.keys())[0]: the first key in insertion order
FirstTerminal(m) ==
  CHOOSE k \in DOMAIN m : \A x \in DOMAIN m : m[k].ord <= m[x].ord

\* TerminalComponent.showTerminal: a terminal that is in the Map and has
\* its element becomes the active one
ShowTerminal(m, terminalId, active) ==
  IF terminalId \in DOMAIN m /\ m[terminalId].element THEN terminalId ELSE active

\* TerminalComponent.createTerminal up to its await: the terminal is
\* stored with its element and terminal:create is sent
TermCreate(podName, namespace) ==
  /\ terminalCounter < MaxTerminals
  /\ LET terminalId == TerminalId(terminalCounter + 1) IN
       /\ terminalCounter' = terminalCounter + 1
       /\ terminals' = [x \in DOMAIN terminals \cup {terminalId} |->
                          IF x = terminalId
                            THEN [podName |-> podName, namespace |-> namespace,
                                  element |-> TRUE, ord |-> terminalCounter + 1]
                            ELSE terminals[x]]
       /\ termCalls' = termCalls (+) SetToBag({[op |-> "create", id |-> terminalId]})
  /\ UNCHANGED <<activeTerminalId, closeRequests, exited, mainVars, notTerminalVars>>

\* createTerminal from its await on: terminal:create has returned success
\* or an error
TermCreateResume(c, success) ==
  /\ BagIn(c, termCalls)
  /\ c.op = "create"
  /\ termCalls' = termCalls (-) SetToBag({c})
  /\ activeTerminalId' = IF success THEN ShowTerminal(terminals, c.id, activeTerminalId)
                                    ELSE activeTerminalId
  /\ UNCHANGED <<terminals, terminalCounter, closeRequests, exited, mainVars,
                 notTerminalVars>>

\* mutant of CloseTerminal: the terminal is taken out of the Map after the
\* await, not before it
CloseTerminalLate(terminalId) ==
  IF terminalId \in DOMAIN terminals
    THEN /\ Len(closeRequests) < MaxCloseRequests
         /\ UNCHANGED terminals
         /\ closeRequests' = Append(closeRequests, terminalId)
         /\ termCalls' = termCalls (+) SetToBag({[op |-> "close", id |-> terminalId]})
    ELSE UNCHANGED <<terminals, closeRequests, termCalls>>

\* TerminalComponent.closeTerminal up to its await: nothing for an id that
\* is not in the Map; else the terminal is disposed of and deleted from the
\* Map and terminal:close is sent
CloseTerminal(terminalId) ==
  IF terminalId \in DOMAIN terminals
    THEN /\ Len(closeRequests) < MaxCloseRequests
         /\ terminals' = MapDelete(terminals, terminalId)
         /\ closeRequests' = Append(closeRequests, terminalId)
         /\ termCalls' = termCalls (+) SetToBag({[op |-> "close", id |-> terminalId]})
    ELSE UNCHANGED <<terminals, closeRequests, termCalls>>

\* the close button of a tab (or closeAll) calls closeTerminal
TermClose(terminalId) ==
  /\ CloseTerminal(terminalId)
  /\ UNCHANGED <<terminalCounter, activeTerminalId, exited, mainVars, notTerminalVars>>

\* window.api.terminal.onExit: the terminal:exit event of a session, which
\* the main process pushes once, calls closeTerminal
TermOnExit(terminalId) ==
  /\ terminalId \notin exited
  /\ exited' = exited \cup {terminalId}
  /\ CloseTerminal(terminalId)
  /\ UNCHANGED <<terminalCounter, activeTerminalId, mainVars, notTerminalVars>>

\* closeTerminal from its await on: terminal:close has returned
TermCloseResume(c) ==
  /\ BagIn(c, termCalls)
  /\ c.op = "close"
  /\ termCalls' = termCalls (-) SetToBag({c})
  /\ activeTerminalId' =
       IF DOMAIN terminals # {}
         THEN ShowTerminal(terminals, FirstTerminal(terminals), activeTerminalId)
         ELSE activeTerminalId
  /\ UNCHANGED <<terminals, terminalCounter, closeRequests, exited, mainVars,
                 notTerminalVars>>

\* ---------------------------------------------------------------- checkPort
\* text is a sequence of characters; the probe command ends in "head -1",
\* so its stdout is empty or one line with its newline
ProbeChars == {" ", "k", "7", "-"}
ProbeLines == UNION {[1..n -> ProbeChars] : n \in 0..MaxLineLen}
ProbeOutputs ==
  {[failed |-> TRUE, stdout |-> <<>>], [failed |-> FALSE, stdout |-> <<>>]}
    \cup {[failed |-> FALSE, stdout |-> Append(line, "\n")] : line \in ProbeLines}

DigitChars == <<"0", "1", "2", "3", "4", "5", "6", "7", "8", "9">>
IsDigit(c) == \E d \in DOMAIN DigitChars : DigitChars[d] = c
DigitValue(c) == (CHOOSE d \in DOMAIN DigitChars : DigitChars[d] = c) - 1
IsSpace(c) == c \in {" ", "\n"}

\* String.prototype.trim
RECURSIVE TrimStart(_)
TrimStart(s) ==
  IF s = <<>> \/ ~IsSpace(Head(s)) THEN s ELSE TrimStart(Tail(s))
RECURSIVE TrimEnd(_)
TrimEnd(s) ==
  IF s = <<>> \/ ~IsSpace(s[Len(s)]) THEN s ELSE TrimEnd(SubSeq(s, 1, Len(s) - 1))
Trim(s) == TrimEnd(TrimStart(s))

\* s.split(/\s+/), the field field being read
RECURSIVE SplitFrom(_, _)
SplitFrom(s, field) ==
  IF s = <<>> THEN <<field>>
  ELSE IF IsSpace(Head(s)) THEN <<field>> \o SplitFrom(TrimStart(s), <<>>)
  ELSE SplitFrom(Tail(s), Append(field, Head(s)))
Split(s) == SplitFrom(s, <<>>)

\* parseInt(str, 10): white space, a sign, then the digits up to the first
\* character that is none; NaN when there is no digit
RECURSIVE ParseDigits(_, _)
ParseDigits(s, acc) ==
  IF s = <<>> \/ ~IsDigit(Head(s)) THEN acc
  ELSE ParseDigits(Tail(s), 10 * acc + DigitValue(Head(s)))
ParseInt(str) ==
  LET s == TrimStart(str)
      signed == s # <<>> /\ Head(s) \in {"-", "+"}
      body == IF signed THEN Tail(s) ELSE s
  IN IF body = <<>> \/ ~IsDigit(Head(body))
       THEN [isNaN |-> TRUE, value |-> 0]
       ELSE [isNaN |-> FALSE,
             value |-> IF signed /\ Head(s) = "-"
                         THEN 0 - ParseDigits(body, 0) ELSE ParseDigits(body, 0)]

\* String(undefined), what parseInt reads when parts[1] is missing
Undefined == <<"u", "n", "d", "e", "f", "i", "n", "e", "d">>

NotInUse == [op |-> "portforward:checkPort", success |-> TRUE, inUse |-> FALSE]

\* mutant of CheckPort: the isNaN(pid) test is left out
CheckPortAnyLine(probe) ==
  IF probe.failed THEN NotInUse
  ELSE LET line == Trim(probe.stdout) IN
    IF line = <<>> THEN NotInUse
    ELSE LET parts == Split(line)
             processName == IF parts[1] = <<>> THEN <<"unknown">> ELSE parts[1]
             pid == ParseInt(IF Len(parts) >= 2 THEN parts[2] ELSE Undefined)
         IN [op |-> "portforward:checkPort", success |-> TRUE, inUse |-> TRUE,
             pid |-> pid.value, processName |-> processName]

\* body of ipcMain.handle('portforward:checkPort'), for what execAsync gave
CheckPort(probe) ==
  IF probe.failed THEN NotInUse
  ELSE LET line == Trim(probe.stdout) IN
    IF line = <<>> THEN NotInUse
    ELSE LET parts == Split(line)
             processName == IF parts[1] = <<>> THEN <<"unknown">> ELSE parts[1]
             pid == ParseInt(IF Len(parts) >= 2 THEN parts[2] ELSE Undefined)
         IN IF pid.isNaN THEN NotInUse
            ELSE [op |-> "portforward:checkPort", success |-> TRUE, inUse |-> TRUE,
                  pid |-> pid.value, processName |-> processName]

\* ipcMain.handle('portforward:checkPort')
PfCheckPort(port, probe) ==
  /\ probed' = probe
  /\ reply' = CheckPort(probe)
  /\ UNCHANGED <<now, mainWindow, procs, logProcesses, portForwardProcesses,
                 stopCalls, stopAllCall, sent, quit>>
  /\ UNCHANGED rendererVars

\* ---------------------------------------------------------------- LogsComponent
\* logs-${podName}-${Date.now()}
LogId(podName, t) == <<"logs", podName, t>>
LogEventIds == {LogId(pod, t) : pod \in Pods, t \in 0..MaxClock}

\* A text is the sequence of its pieces between newlines, as split('\n')
\* gives them; a piece is a sequence of tokens: blanks, or the visible
\* text of line i of chunk c.
TextSeg(c, i) == <<[t |-> "text", chunk |-> c, line |-> i]>>
SpaceSeg == <<[t |-> " ", chunk |-> 0, line |-> 0]>>
EmptySeg == <<>>
ErrorTag == [t |-> "[ERROR] ", chunk |-> 0, line |-> 0]
ProcessEnded == <<<<[t |-> "[Process ended]", chunk |-> 0, line |-> 0]>>>>

\* the texts of the events: "abc\n", "a\n \n\nb", "\n" and a burst of lines
ViewShapes == {"line", "blank", "empty"}
TrimShapes == {"blank", "many"}
ChunkText(shape, c) ==
  CASE shape = "line" -> <<TextSeg(c, 1), EmptySeg>>
    [] shape = "blank" -> <<TextSeg(c, 1), SpaceSeg, EmptySeg, TextSeg(c, 2)>>
    [] shape = "empty" -> <<EmptySeg, EmptySeg>>
    [] shape = "many" -> [i \in 1..(ManyLines + 1) |->
                            IF i <= ManyLines THEN TextSeg(c, i) ELSE EmptySeg]

\* `[ERROR] ${data}`
ErrorText(data) == <<<<ErrorTag>> \o Head(data)>> \o Tail(data)

\* line.trim() is the empty string
TrimIsEmpty(line) == \A i \in DOMAIN line : line[i].t = " "

\* the log-line elements appendLog creates for a text
NewLines(text, isError) ==
  LET Kept(line) == ~TrimIsEmpty(line)
      lines == SelectSeq(text, Kept)
  IN [i \in 1..Len(lines) |-> [text |-> lines[i], error |-> isError]]

\* while (children.length > maxLines) removeChild(firstChild)
RECURSIVE TrimOldest(_)
TrimOldest(children) ==
  IF Len(children) > maxLines THEN TrimOldest(Tail(children)) ELSE children

\* mutant of AppendLog: the loop removes the last child
RECURSIVE TrimNewest(_)
TrimNewest(children) ==
  IF Len(children) > maxLines
    THEN TrimNewest(SubSeq(children, 1, Len(children) - 1)) ELSE children
AppendLogTrimNewest(content, text, isError) ==
  IF ~content.exists THEN content
  ELSE [content EXCEPT !.children = TrimNewest(@ \o NewLines(text, isError))]

\* LogsComponent.appendLog
AppendLog(content, text, isError) ==
  IF ~content.exists THEN content
  ELSE [content EXCEPT !.children = TrimOldest(@ \o NewLines(text, isError))]

\* this.logBuffer.forEach(data => this.appendLog(data))
RECURSIVE AppendAll(_, _)
AppendAll(content, buffer) ==
  IF buffer = <<>> THEN content
  ELSE AppendAll(AppendLog(content, Head(buffer), FALSE), Tail(buffer))

\* the lines a buffer adds
RECURSIVE LinesOf(_)
LinesOf(buffer) ==
  IF buffer = <<>> THEN <<>>
  ELSE NewLines(Head(buffer), FALSE) \o LinesOf(Tail(buffer))

\* the chunks of arrived that are not in the buffer
ArrivedShown == SubSeq(arrived, 1, Len(arrived) - Len(logBuffer))

\* window.api.logs.onData listener, for the first limit events
ViewOnDataWithin(limit, logId, shape) ==
  /\ microtasks = <<>>
  /\ serial < limit
  /\ LET data == ChunkText(shape, serial + 1) IN
       /\ event' = [kind |-> "data", logId |-> logId, data |-> data]
       /\ IF logId = currentLogId /\ ~isPaused
            THEN /\ logContent' = AppendLog(logContent, data, FALSE)
                 /\ appended' = IF logContent.exists
                                  THEN appended \o NewLines(data, FALSE) ELSE appended
                 /\ arrived' = Append(arrived, [data |-> data, paused |-> FALSE])
                 /\ UNCHANGED logBuffer
            ELSE IF logId = currentLogId /\ isPaused
              THEN /\ logBuffer' = Append(logBuffer, data)
                   /\ arrived' = Append(arrived, [data |-> data, paused |-> TRUE])
                   /\ UNCHANGED <<logContent, appended>>
              ELSE UNCHANGED <<logContent, logBuffer, arrived, appended>>
  /\ serial' = serial + 1
  /\ UNCHANGED <<currentLogId, isPaused, logCalls, microtasks, logRequests>>
  /\ UNCHANGED <<mainVars, notLogVars>>

ViewOnData(logId, shape) == ViewOnDataWithin(MaxEvents, logId, shape)

\* mutant of ViewOnError: the listener does not compare the ids
ViewOnErrorAny(logId, shape) ==
  /\ microtasks = <<>>
  /\ serial < MaxEvents
  /\ LET data == ChunkText(shape, serial + 1) IN
       /\ event' = [kind |-> "error", logId |-> logId, data |-> data]
       /\ logContent' = AppendLog(logContent, ErrorText(data), TRUE)
       /\ appended' = IF logContent.exists
                        THEN appended \o NewLines(ErrorText(data), TRUE)
                        ELSE appended
  /\ serial' = serial + 1
  /\ UNCHANGED <<currentLogId, isPaused, logBuffer, logCalls, microtasks,
                 logRequests, arrived>>
  /\ UNCHANGED <<mainVars, notLogVars>>

\* window.api.logs.onError listener
ViewOnError(logId, shape) ==
  /\ microtasks = <<>>
  /\ serial < MaxEvents
  /\ LET data == ChunkText(shape, serial + 1) IN
       /\ event' = [kind |-> "error", logId |-> logId, data |-> data]
       /\ IF logId = currentLogId
            THEN /\ logContent' = AppendLog(logContent, ErrorText(data), TRUE)
                 /\ appended' = IF logContent.exists
                                  THEN appended \o NewLines(ErrorText(data), TRUE)
                                  ELSE appended
            ELSE UNCHANGED <<logContent, appended>>
  /\ serial' = serial + 1
  /\ UNCHANGED <<currentLogId, isPaused, logBuffer, logCalls, microtasks,
                 logRequests, arrived>>
  /\ UNCHANGED <<mainVars, notLogVars>>

\* window.api.logs.onExit listener
ViewOnExit(logId) ==
  /\ microtasks = <<>>
  /\ serial < MaxEvents
  /\ event' = [kind |-> "exit", logId |-> logId, data |-> <<>>]
  /\ IF logId = currentLogId
       THEN /\ logContent' = AppendLog(logContent, ProcessEnded, TRUE)
            /\ appended' = IF logContent.exists
                             THEN appended \o NewLines(ProcessEnded, TRUE)
                             ELSE appended
       ELSE UNCHANGED <<logContent, appended>>
  /\ serial' = serial + 1
  /\ UNCHANGED <<currentLogId, isPaused, logBuffer, logCalls, microtasks,
                 logRequests, arrived>>
  /\ UNCHANGED <<mainVars, notLogVars>>

\* the chunks of a buffer, the last first
Reverse(buffer) == [i \in 1..Len(buffer) |-> buffer[Len(buffer) + 1 - i]]

\* mutant of TogglePause: the buffer is flushed from its newest chunk
TogglePauseNewestFirst ==
  /\ microtasks = <<>>
  /\ isPaused' = ~isPaused
  /\ IF isPaused /\ Len(logBuffer) > 0
       THEN /\ logContent' = AppendAll(logContent, Reverse(logBuffer))
            /\ appended' = IF logContent.exists
                             THEN appended \o LinesOf(Reverse(logBuffer)) ELSE appended
            /\ logBuffer' = <<>>
       ELSE UNCHANGED <<logContent, appended, logBuffer>>
  /\ event' = NoEvent
  /\ UNCHANGED <<currentLogId, logCalls, microtasks, logRequests, serial, arrived>>
  /\ UNCHANGED <<mainVars, notLogVars>>

\* LogsComponent.togglePause
TogglePause ==
  /\ microtasks = <<>>
  /\ isPaused' = ~isPaused
  /\ IF isPaused /\ Len(logBuffer) > 0
       THEN /\ logContent' = AppendAll(logContent, logBuffer)
            /\ appended' = IF logContent.exists
                             THEN appended \o LinesOf(logBuffer) ELSE appended
            /\ logBuffer' = <<>>
       ELSE UNCHANGED <<logContent, appended, logBuffer>>
  /\ event' = NoEvent
  /\ UNCHANGED <<currentLogId, logCalls, microtasks, logRequests, serial, arrived>>
  /\ UNCHANGED <<mainVars, notLogVars>>

\* LogsComponent.clear
ClearLog ==
  /\ microtasks = <<>>
  /\ logContent' = IF logContent.exists
                     THEN [logContent EXCEPT !.children = <<>>] ELSE logContent
  /\ logBuffer' = <<>>
  /\ arrived' = <<>>
  /\ appended' = <<>>
  /\ event' = NoEvent
  /\ UNCHANGED <<currentLogId, isPaused, logCalls, microtasks, logRequests, serial>>
  /\ UNCHANGED <<mainVars, notLogVars>>

\* the logs:start requests the suspended calls will still send
StartsToCome == Len(SelectSeq(logCalls, LAMBDA c : c.pc = "stopping"))

\* n calls of LogsComponent.startLogs made one after the other by one
\* piece of synchronous code, each up to its first await: stopLogs sends
\* logs:stop and is suspended, or, without a current id, empties the
\* buffer and returns, and the await of startLogs resumes in a microtask
StartLogsCalls(podName, namespace, n) ==
  /\ microtasks = <<>>
  /\ Len(logCalls) + n <= MaxPending
  /\ Len(logRequests) + StartsToCome + 2 * n <= MaxLogRequests
  /\ LET call == [podName |-> podName, namespace |-> namespace,
                  pc |-> IF currentLogId # NoLogId THEN "stopping" ELSE "stopped",
                  logId |-> currentLogId]
         calls == [i \in 1..n |-> call]
     IN IF currentLogId # NoLogId
          THEN /\ logRequests' = logRequests \o
                    [i \in 1..n |-> [op |-> "logs:stop", logId |-> currentLogId]]
               /\ logCalls' = logCalls \o calls
               /\ UNCHANGED <<logBuffer, arrived, microtasks>>
          ELSE /\ logBuffer' = <<>>
               /\ arrived' = ArrivedShown
               /\ microtasks' = calls
               /\ UNCHANGED <<logRequests, logCalls>>
  /\ event' = NoEvent
  /\ UNCHANGED <<currentLogId, logContent, isPaused, serial, appended>>
  /\ UNCHANGED <<mainVars, notLogVars>>

\* RickubeApp.onPodSelect with the logs tab active
StartLogs(podName, namespace) == StartLogsCalls(podName, namespace, 1)

\* RickubeApp.onPodContextLogs: switchTab('logs') calls startLogs, and
\* startLogs is called again
OnPodContextLogs(podName, namespace) == StartLogsCalls(podName, namespace, 2)

\* LogsComponent.startLogs after await this.stopLogs(), up to its await of
\* window.api.logs.start
StartLogsResume ==
  /\ microtasks # <<>>
  /\ LET call == Head(microtasks)
         logId == LogId(call.podName, now)
     IN /\ currentLogId' = logId
        /\ logContent' = [exists |-> TRUE, inContainer |-> TRUE, children |-> <<>>]
        /\ logRequests' = Append(logRequests, [op |-> "logs:start", logId |-> logId])
        /\ logCalls' = Append(logCalls, [call EXCEPT !.pc = "starting", !.logId = logId])
  /\ microtasks' = Tail(microtasks)
  /\ arrived' = <<>>
  /\ appended' = <<>>
  /\ event' = NoEvent
  /\ UNCHANGED <<isPaused, logBuffer, serial>>
  /\ UNCHANGED <<mainVars, notLogVars>>

\* the reply of the main process to the oldest request resumes its call:
\* stopLogs after its await, or startLogs after await window.api.logs.start
LogsReply(success) ==
  /\ microtasks = <<>>
  /\ logCalls # <<>>
  /\ LET call == Head(logCalls) IN
       IF call.pc = "stopping"
         THEN /\ success
              /\ currentLogId' = NoLogId
              /\ logBuffer' = <<>>
              /\ arrived' = ArrivedShown
              /\ microtasks' = <<[call EXCEPT !.pc = "stopped"]>>
              /\ UNCHANGED logContent
         ELSE /\ logContent' = IF success THEN logContent
                               ELSE [logContent EXCEPT !.inContainer = FALSE]
              /\ UNCHANGED <<currentLogId, logBuffer, arrived, microtasks>>
  /\ logCalls' = Tail(logCalls)
  /\ event' = NoEvent
  /\ UNCHANGED <<isPaused, logRequests, serial, appended>>
  /\ UNCHANGED <<mainVars, notLogVars>>

\* ---------------------------------------------------------------- PortForwardManager
\* The manager's calls are handled by the portforward handlers above. A
\* reply and the events pushed with webContents.send reach the renderer
\* in the order in which the main process sent them.
ManagerOps == {"portforward:start", "portforward:stop", "portforward:stopAll"}
ReplyPending == reply.op \in ManagerOps

\* the handler has returned: its reply is sent to the renderer
ManagerReplySent ==
  /\ ReplyPending
  /\ pfReplies' = Append(pfReplies, [reply |-> reply, at |-> Len(sent)])
  /\ reply' = NoReply
  /\ UNCHANGED <<now, mainWindow, procs, logProcesses, portForwardProcesses,
                 stopCalls, stopAllCall, sent, quit>>
  /\ UNCHANGED <<activeForwards, pfSeen>>
  /\ UNCHANGED notManagerVars

\* mutant of ManagerOnEvent: the onError listener removes the forward too
ManagerOnEventErrorDeletes ==
  /\ pfSeen < Len(sent)
  /\ IF pfReplies = <<>> THEN TRUE ELSE Head(pfReplies).at > pfSeen
  /\ LET e == sent[pfSeen + 1] IN
       activeForwards' = IF e.type \in {"portforward:exit", "portforward:error"}
                           THEN activeForwards \ {e.id} ELSE activeForwards
  /\ pfSeen' = pfSeen + 1
  /\ UNCHANGED pfReplies
  /\ UNCHANGED <<mainVars, notManagerVars>>

\* the listeners of setupListeners, for the next pushed event: onExit
\* deletes the forward, onData and onError log and notify
ManagerOnEvent ==
  /\ pfSeen < Len(sent)
  /\ IF pfReplies = <<>> THEN TRUE ELSE Head(pfReplies).at > pfSeen
  /\ LET e == sent[pfSeen + 1] IN
       activeForwards' = IF e.type = "portforward:exit"
                           THEN activeForwards \ {e.id} ELSE activeForwards
  /\ pfSeen' = pfSeen + 1
  /\ UNCHANGED pfReplies
  /\ UNCHANGED <<mainVars, notManagerVars>>

\* startForward, stopForward and stopAll after their await
ManagerOnReply ==
  /\ pfReplies # <<>>
  /\ Head(pfReplies).at <= pfSeen
  /\ LET result == Head(pfReplies).reply IN
       activeForwards' =
         IF ~result.success THEN activeForwards
         ELSE CASE result.op = "portforward:start" -> activeForwards \cup {result.id}
                [] result.op = "portforward:stop" -> activeForwards \ {result.id}
                [] result.op = "portforward:stopAll" -> {}
  /\ pfReplies' = Tail(pfReplies)
  /\ UNCHANGED pfSeen
  /\ UNCHANGED <<mainVars, notManagerVars>>

\* ---------------------------------------------------------------- claims
PfPids == {p \in Pids : procs[p].kind = "pf"}

\* C1: the forwardIds returned by portforward:start calls are pairwise
\* distinct (the id returned by the call that created child p is
\* procs[p].id), so no session is displaced from its registry key.
C1_PairwiseDistinctIds ==
  \A p, q \in PfPids : p # q => procs[p].id # procs[q].id

\* a suspended portforward:stop call c takes a step: its kill-by-port
\* command ends, or the handler resumes and returns
Advances(c) == CopiesIn(c, stopCalls') < CopiesIn(c, stopCalls)
Resumes(c) ==
  /\ Advances(c)
  /\ BagCardinality(stopCalls') < BagCardinality(stopCalls)
Calls == BagCardinality(stopCalls') > BagCardinality(stopCalls)

\* C2: portforward:stop on a registered session hands the kill-by-port
\* command for the session's localPort to WSL, and a call whose
\* kill-by-port command failed is never dropped: it resumes, sends SIGKILL
\* to the local child, removes the registry entry and returns success.
C2_StopAttemptsBoth ==
  [][/\ Calls =>
          \E c \in BagToSet(stopCalls') :
            /\ c.remote = "pending"
            /\ c.id \in DOMAIN portForwardProcesses
            /\ c.port = portForwardProcesses[c.id].localPort
            /\ c.process = portForwardProcesses[c.id].process
            /\ CopiesIn(c, stopCalls') = CopiesIn(c, stopCalls) + 1
     /\ \A c \in BagToSet(stopCalls) :
          (c.remote = "failed" /\ Advances(c)) =>
            /\ procs'[c.process].sig = "SIGKILL"
            /\ procs'[c.process].local # "running"
            /\ c.id \notin DOMAIN portForwardProcesses'
            /\ reply'.op = "portforward:stop"
            /\ reply'.id = c.id
            /\ reply'.success
    ]_vars

C2_Witness ==
  /\ reply.op = "portforward:stop"
  /\ reply.success
  /\ reply.remote = "failed"
  /\ procs[reply.process].sig = "SIGKILL"
  /\ procs[reply.process].local = "terminated"
  /\ reply.id \notin DOMAIN portForwardProcesses

\* C3: in a portforward:stop the local child is not signalled and the
\* entry not removed while the kill-by-port command is still to be issued
\* or still running; the SIGKILL and the removal come in the step after
\* the command has ended (done or failed).
C3_TeardownOrder ==
  [][/\ Calls => (procs' = procs /\ portForwardProcesses' = portForwardProcesses)
     /\ \A c \in BagToSet(stopCalls) :
          /\ (c.remote = "pending" /\ Advances(c)) =>
               /\ ~Resumes(c)
               /\ procs'[c.process].sig = procs[c.process].sig
               /\ portForwardProcesses' = portForwardProcesses
          /\ Resumes(c) =>
               /\ c.remote \in {"done", "failed"}
               /\ procs'[c.process].sig = "SIGKILL"
               /\ c.id \notin DOMAIN portForwardProcesses'
     /\ \A p \in Pids :
          (procs'[p].sig = "SIGKILL" /\ procs[p].sig # "SIGKILL") =>
            \E c \in BagToSet(stopCalls) :
              c.process = p /\ c.remote # "pending" /\ Resumes(c)
    ]_vars

C3_Witness ==
  /\ reply.op = "portforward:stop"
  /\ reply.success
  /\ reply.remote = "done"
  /\ procs[reply.process].sig = "SIGKILL"
  /\ procs[reply.process].remote = "dead"

\* C4: when portforward:stopAll returns, every child process that was
\* registered when it was called has been ended by the local kill (or had
\* ended before), whether or not a kill-by-port command failed, and the
\* registry is empty.
C4_StopAllTearsDownAll ==
  reply.op = "portforward:stopAll" =>
    /\ portForwardProcesses = <<>>
    /\ \A p \in reply.snap :
         procs[p].local # "running"

\* C5: stop is idempotent for logs:stop and portforward:stop.  A stop of
\* a registered id returns success with the id removed; a stop of the same
\* id called right after that return is answered not found, suspends no
\* new call, and leaves both registries and every child as they were.
C5_StopIdempotent ==
  [][/\ (reply'.op = "logs:stop" /\ reply'.id[1] \in DOMAIN logProcesses) =>
          (reply'.success /\ reply'.id[1] \notin DOMAIN logProcesses')
     /\ (reply'.op = "portforward:stop" /\ reply'.success) =>
          reply'.id \notin DOMAIN portForwardProcesses'
     /\ (reply.op = "logs:stop" /\ reply.success
           /\ reply'.op = "logs:stop" /\ reply'.id = reply.id) =>
          /\ ~reply'.success
          /\ reply'.error = "Log process not found"
          /\ UNCHANGED <<logProcesses, portForwardProcesses, procs>>
     /\ (reply.op = "portforward:stop" /\ reply.success) =>
          /\ ~(Calls /\ \E c \in BagToSet(stopCalls') :
                  c.id = reply.id /\ CopiesIn(c, stopCalls') > CopiesIn(c, stopCalls))
          /\ (reply'.op = "portforward:stop" /\ reply'.id = reply.id
                /\ UNCHANGED stopCalls) =>
               /\ ~reply'.success
               /\ reply'.error = "Port forward not found"
               /\ UNCHANGED <<logProcesses, portForwardProcesses, procs>>
    ]_vars

\* a second stop answered not found for a forward that a first stop removed
C5_Witness ==
  /\ reply.op = "portforward:stop"
  /\ ~reply.success
  /\ reply.id \notin DOMAIN portForwardProcesses
  /\ \E p \in PfPids : procs[p].id = reply.id /\ procs[p].sig = "SIGKILL"

\* C6: a step of portforward:stop(id) (its kill-by-port command or its
\* resumption) leaves every other registered forward id' as it was: the
\* entry of id' and the child process of id' are unchanged.
C6_StopLeavesOthers ==
  [][\A c \in BagToSet(stopCalls) :
       Advances(c) =>
         \A k \in DOMAIN portForwardProcesses \ {c.id} :
           /\ k \in DOMAIN portForwardProcesses'
           /\ portForwardProcesses'[k] = portForwardProcesses[k]
           /\ procs'[portForwardProcesses[k].process]
                = procs[portForwardProcesses[k].process]
    ]_vars

\* C7: logs:stop(l1) pushes no event, and leaves the entry and the child of
\* every other log id l2 as they were, so that l2 is still registered with
\* the same child; and logs:stop of a registered id returns success.
C7_LogStreamsIndependent ==
  [][reply'.op = "logs:stop" =>
       /\ sent' = sent
       /\ \A l2 \in DOMAIN logProcesses \ {reply'.id[1]} :
            /\ l2 \in DOMAIN logProcesses'
            /\ logProcesses'[l2] = logProcesses[l2]
            /\ procs'[logProcesses[l2]] = procs[logProcesses[l2]]
       /\ reply'.id[1] \in DOMAIN logProcesses => reply'.success
    ]_vars

\* l1 has just been stopped while l2 is registered with a running child
C7_Witness ==
  /\ reply.op = "logs:stop"
  /\ reply.success
  /\ reply.id = <<"l1">>
  /\ "l2" \in DOMAIN logProcesses
  /\ procs[logProcesses["l2"]].local = "running"
  /\ \E p \in Pids : procs[p].id = <<"l1">> /\ procs[p].sig = "SIGTERM"

\* C8: in the state in which the exit event of a log or port-forward
\* session has just been pushed, the registry has no entry under the id of
\* the event and portforward:list has no summary with it (so that a stop
\* of the id finds nothing).
C8_ExitedNotRegistered ==
  [][Len(sent') = Len(sent) + 1 =>
       LET e == sent'[Len(sent')] IN
         /\ e.type = "logs:exit" => e.id[1] \notin DOMAIN logProcesses'
         /\ e.type = "portforward:exit" =>
              /\ e.id \notin DOMAIN portForwardProcesses'
              /\ \A i \in DOMAIN PortForwardList' : PortForwardList'[i].forwardId # e.id
    ]_vars

\* the exit event of a forward has been pushed while another forward is
\* still registered and listed
C8_Witness ==
  /\ sent # <<>>
  /\ sent[Len(sent)].type = "portforward:exit"
  /\ sent[Len(sent)].id \notin DOMAIN portForwardProcesses
  /\ Len(PortForwardList) = 1
  /\ \E p \in PfPids : procs[p].id = sent[Len(sent)].id /\ procs[p].local = "reaped"

\* every child process a registry holds
Tracked ==
  {logProcesses[l] : l \in DOMAIN logProcesses}
    \cup {portForwardProcesses[k].process : k \in DOMAIN portForwardProcesses}

\* C9: before-quit sends a stop to every child that logProcesses or
\* portForwardProcesses still holds: none of them is left running.
C9_ShutdownStopsEverySession ==
  [][(~quit /\ quit') =>
       \A p \in Tracked : procs'[p].sig # "none" /\ procs'[p].local # "running"
    ]_vars

\* C10: before-quit tears every registered forward down in two steps: a
\* kill-by-port command for its localPort is issued (or nothing is left
\* listening on that port), and its local child is killed.
C10_ShutdownTwoStep ==
  [][(~quit /\ quit') =>
       \A k \in DOMAIN portForwardProcesses :
         LET forward == portForwardProcesses[k] IN
           /\ \/ \E c \in BagToSet(stopCalls') :
                   c.port = forward.localPort /\ c.process = forward.process
              \/ \A p \in Pids :
                   procs'[p].port = forward.localPort => procs'[p].remote # "listening"
           /\ procs'[forward.process].sig # "none"
    ]_vars

\* C11: no registry ever holds an entry whose child process failed to
\* spawn: a start that cannot create its process inserts nothing.
C11_NoEntryForFailedSpawn ==
  /\ \A l \in DOMAIN logProcesses : procs[logProcesses[l]].local # "spawnfail"
  /\ \A k \in DOMAIN portForwardProcesses :
       procs[portForwardProcesses[k].process].local # "spawnfail"

\* C12: a logs:start or portforward:start that has just returned success
\* has created a child process that was spawned: the call of a child whose
\* spawn failed returns success false.
C12_SpawnFailureReturned ==
  (reply.op \in {"logs:start", "portforward:start"} /\ reply.success) =>
    procs[Len(procs)].local # "spawnfail"

\* C13: a start under an id that its registry already holds fails and
\* leaves the registry as it was: the entry of the id and its process
\* handle are not replaced.
C13_DuplicateIdRejected ==
  [][/\ (reply'.op = "logs:start" /\ reply'.id[1] \in DOMAIN logProcesses) =>
          /\ ~reply'.success
          /\ logProcesses' = logProcesses
     /\ (reply'.op = "portforward:start"
           /\ reply'.id \in DOMAIN portForwardProcesses) =>
          /\ ~reply'.success
          /\ portForwardProcesses' = portForwardProcesses
    ]_vars

\* the data events pushed for the stdout chunks of child p, in the order
\* the subscriber gets them
DataEvents(p) ==
  SelectSeq(sent, LAMBDA e : /\ e.type \in {"logs:data", "portforward:data"}
                             /\ e.data.str[1] = p)

\* C14: the data events of the stdout chunks of one session come in the
\* order the process wrote the chunks, each tagged with the id of the
\* session: the i-th data event of child p carries its i-th chunk, and
\* while the subscriber window exists none is missing.  (Nothing is said
\* about the order between the events of two sessions.)
C14_OutputOrder ==
  \A p \in Pids :
    LET d == DataEvents(p) IN
      /\ Len(d) <= procs[p].got
      /\ mainWindow => Len(d) = procs[p].got
      /\ \A i \in DOMAIN d :
           /\ d[i].data = Utf8(Chunk(p, i))
           /\ d[i].id = procs[p].id
           /\ d[i].type = IF procs[p].kind = "log" THEN "logs:data"
                                                   ELSE "portforward:data"

\* the three chunks of one child have been pushed, with an event of another
\* child between them
C14_Witness ==
  \E p, q \in Pids :
    /\ p # q
    /\ Len(DataEvents(p)) = 3
    /\ \E i, j, k \in DOMAIN sent :
         /\ i < j /\ j < k
         /\ sent[i] = DataEvents(p)[1]
         /\ sent[j] \in {DataEvents(q)[n] : n \in DOMAIN DataEvents(q)}
         /\ sent[k] = DataEvents(p)[3]

\* C15: an entry whose own child process is running leaves its registry
\* only in the step in which a stop of its id returns (stopAll and the
\* shutdown are not among the steps taken): no exit or error handler of
\* another process removes it.
C15_RunningEntryKept ==
  [][/\ \A l \in DOMAIN logProcesses :
          (l \notin DOMAIN logProcesses' /\ procs[logProcesses[l]].local = "running") =>
            (reply'.op = "logs:stop" /\ reply'.id = <<l>> /\ reply'.success)
     /\ \A k \in DOMAIN portForwardProcesses :
          (/\ k \notin DOMAIN portForwardProcesses'
           /\ procs[portForwardProcesses[k].process].local = "running") =>
            (reply'.op = "portforward:stop" /\ reply'.id = k /\ reply'.success)
    ]_vars

\* the handler of an event of child p (a stdout chunk, its exit, its
\* spawn error) pushes an event in this step
Pushes(p) ==
  /\ Len(sent') > Len(sent)
  /\ \/ procs'[p].got > procs[p].got
     \/ procs'[p].local = "reaped" /\ procs[p].local # "reaped"

\* C16: no event of a session is pushed once a stop of its id has returned
\* success.  (A child is signalled only in the step in which logs:stop or
\* portforward:stop of its id returns success, so sig # "none" says that
\* the stop has returned.)
C16_NoEventAfterStop ==
  [][\A p \in Pids : Pushes(p) => procs[p].sig = "none"]_vars

\* C17: the exit event is the last event of its session: once the exit
\* handler of child p has run (local = "reaped"), no further event of p is
\* pushed, neither a second exit nor a data event.
C17_ExitTerminal ==
  [][\A p \in Pids : Pushes(p) => procs[p].local # "reaped"]_vars

\* C18: no registry holds an entry whose child process has exited and had
\* its exit handler run (local = "reaped"), with or without a window.
C18_ExitedRemoved ==
  /\ \A l \in DOMAIN logProcesses : procs[logProcesses[l]].local # "reaped"
  /\ \A k \in DOMAIN portForwardProcesses :
       procs[portForwardProcesses[k].process].local # "reaped"

\* C19: there is no automatic restart.  When the exit of a tunnel child
\* that no stop has signalled is handled, the exit event with the child's
\* exit code is pushed (to the window, while there is one), the entry of
\* its id is gone, no child process is created and no entry is added; an
\* entry is added or given another process only by a portforward:start
\* that returns success for that id, and a child process is created only
\* by a start call.
C19_NoAutomaticRestart ==
  [][/\ \A p \in PfPids :
          (/\ procs[p].local = "terminated"
           /\ procs'[p].local = "reaped"
           /\ procs[p].sig = "none") =>
            /\ mainWindow =>
                 sent' = Append(sent, [type |-> "portforward:exit", id |-> procs[p].id,
                                       code |-> procs[p].code])
            /\ procs[p].code # NullCode
            /\ procs[p].id \notin DOMAIN portForwardProcesses'
            /\ Len(procs') = Len(procs)
            /\ DOMAIN portForwardProcesses' \subseteq DOMAIN portForwardProcesses
     /\ \A k \in DOMAIN portForwardProcesses' :
          (\/ k \notin DOMAIN portForwardProcesses
           \/ portForwardProcesses'[k].process # portForwardProcesses[k].process) =>
            /\ reply'.op = "portforward:start"
            /\ reply'.success
            /\ reply'.id = k
            /\ Len(procs') = Len(procs) + 1
            /\ portForwardProcesses'[k].process = Len(procs')
     /\ Len(procs') > Len(procs) =>
          (reply'.op \in {"portforward:start", "logs:start"} /\ reply'.success)
    ]_vars

\* a tunnel has ended on its own with exit code 1: its exit event is the
\* last event pushed, its entry is gone and nothing has taken its place
C19_Witness ==
  /\ reply = NoReply
  /\ sent # <<>>
  /\ sent[Len(sent)].type = "portforward:exit"
  /\ sent[Len(sent)].code = 1
  /\ portForwardProcesses = <<>>
  /\ \E p \in PfPids :
       /\ procs[p].id = sent[Len(sent)].id
       /\ procs[p].local = "reaped"
       /\ procs[p].sig = "none"
       /\ p = Len(procs)

\* C20: portforward:list returns one summary per entry of the registry and
\* no other, and each summary carries the resourceType, name, namespace,
\* localPort, remotePort and startTime that were given to the start call
\* that created the entry's child process.
C20_ListMirrorsRegistry ==
  LET list == PortForwardList IN
    /\ Len(list) = Cardinality(DOMAIN portForwardProcesses)
    /\ \A k \in DOMAIN portForwardProcesses :
         \E i \in DOMAIN list : list[i].forwardId = k
    /\ \A i \in DOMAIN list :
         /\ list[i].forwardId \in DOMAIN portForwardProcesses
         /\ LET p == portForwardProcesses[list[i].forwardId].process IN
              /\ \E t \in 0..MaxClock :
                   /\ list[i].startTime = IsoString(t)
                   /\ procs[p].id = ForwardId(list[i].resourceType, list[i].name,
                                              list[i].localPort, t)
              /\ list[i].forwardId = procs[p].id
              /\ procs[p].port = list[i].localPort
              /\ procs[p].target = <<list[i].namespace, list[i].remotePort>>

\* one forward to remote port 443 is listed, started after a forward to
\* remote port 80 that has been stopped and is not listed
C20_Witness ==
  /\ Len(PortForwardList) = 1
  /\ PortForwardList[1].remotePort = 443
  /\ \E p \in PfPids :
       /\ procs[p].id # PortForwardList[1].forwardId
       /\ procs[p].target[2] = 80
       /\ procs[p].sig = "SIGKILL"
       /\ procs[p].local = "reaped"

\* C21: logs:start under a logId leaves the entry and the child process of
\* every other logId as they were, also those of the same pod and
\* namespace, and a start that returns success has its own id registered:
\* the sessions exist side by side.
C21_NoTargetExclusivity ==
  [][reply'.op = "logs:start" =>
       /\ \A l \in DOMAIN logProcesses \ {reply'.id[1]} :
            /\ l \in DOMAIN logProcesses'
            /\ logProcesses'[l] = logProcesses[l]
            /\ procs'[logProcesses[l]] = procs[logProcesses[l]]
       /\ reply'.success =>
            /\ reply'.id[1] \in DOMAIN logProcesses'
            /\ logProcesses'[reply'.id[1]] = Len(procs')
    ]_vars

\* a second stream of the same pod has just been started under a new id
\* while the first is registered and running
C21_Witness ==
  /\ reply.op = "logs:start"
  /\ reply.success
  /\ Cardinality(DOMAIN logProcesses) = 2
  /\ \A l \in DOMAIN logProcesses : procs[logProcesses[l]].local = "running"
  /\ \A l, m \in DOMAIN logProcesses :
       procs[logProcesses[l]].target = procs[logProcesses[m]].target

\* the intervals that have been set and not cleared
LiveTimers == {i \in DOMAIN timers : timers[i].live}

\* C29: every interval that is live is the one recorded under its key, so
\* that a key has at most one live timer and isRunning(key) is true exactly
\* when it has one; start(key) clears the timer the key had and records a
\* new one; stop(key) clears the timer of key and leaves the timers and
\* records of the other keys as they were.
C29_OneTimerPerKey ==
  [][/\ \A i \in LiveTimers' :
          /\ timers'[i].key \in DOMAIN intervals'
          /\ intervals'[timers'[i].key] = i
     /\ \A k \in PollerKeys :
          IsRunning(k)' <=> (\E i \in LiveTimers' : timers'[i].key = k)
     /\ \A k \in DOMAIN intervals :
          /\ (Len(timers') > Len(timers) /\ timers'[Len(timers')].key = k) =>
               /\ ~timers'[intervals[k]].live
               /\ intervals'[k] = Len(timers')
          /\ (k \notin DOMAIN intervals' \/ intervals'[k] # intervals[k]) =>
               ~timers'[intervals[k]].live
          /\ (k \in DOMAIN intervals' /\ intervals'[k] = intervals[k]) =>
               timers'[intervals[k]].live
    ]_vars

\* a key has been started again while another key is running: the first
\* timer of the key is cleared, its second timer and the timer of the other
\* key are live
C29_Witness ==
  /\ Len(timers) = 3
  /\ \E i, j, m \in DOMAIN timers :
       /\ i < j
       /\ timers[i].key = timers[j].key
       /\ ~timers[i].live /\ timers[j].live
       /\ timers[m].key # timers[i].key /\ timers[m].live
  /\ Cardinality(DOMAIN intervals) = 2

\* C23: closing a terminal twice is safe.  No terminal id is sent two
\* terminal:close requests, whether closeTerminal comes from the close
\* button, from the terminal:exit event, or from both, after or during the
\* first call; a terminal leaves the Map only in the step in which the
\* terminal:close request of its own id is sent; and a closeTerminal of an
\* id that is not in the Map (here the one called by terminal:exit, which
\* shows in exited) changes nothing else.
C23_CloseTwiceSafe ==
  [][/\ \A i, j \in DOMAIN closeRequests' :
          i # j => closeRequests'[i] # closeRequests'[j]
     /\ \A k \in DOMAIN terminals :
          k \notin DOMAIN terminals' => closeRequests' = Append(closeRequests, k)
     /\ \A k \in exited' \ exited :
          k \notin DOMAIN terminals =>
            UNCHANGED <<terminals, closeRequests, termCalls, activeTerminalId>>
    ]_vars

\* the terminal:exit event of terminal-1 has come while the closeTerminal
\* of the close button was at its await: one request, and terminal-2 is
\* still in the Map
C23_Witness ==
  /\ closeRequests = <<TerminalId(1)>>
  /\ TerminalId(1) \in exited
  /\ BagIn([op |-> "close", id |-> TerminalId(1)], termCalls)
  /\ DOMAIN terminals = {TerminalId(2)}

\* C30: start(key, callback, intervalMs) calls the callback once at once,
\* and every later invocation is the one of a tick of an interval that is
\* live and recorded under its key, so that none is started after stop(key)
\* or stopAll; each step starts at most one invocation; an invocation that
\* rejects cancels nothing: the interval stays live and isRunning(key) true.
C30_PollerInvocations ==
  [][/\ Len(timers') > Len(timers) =>
          /\ Len(invoked') = Len(invoked) + 1
          /\ invoked'[Len(invoked')].via = "start"
          /\ invoked'[Len(invoked')].key = timers'[Len(timers')].key
          /\ invoked'[Len(invoked')].start = Len(timers')
     /\ Len(invoked') <= Len(invoked) + 1
     /\ \A n \in DOMAIN invoked' \ DOMAIN invoked :
          LET call == invoked'[n] IN
            /\ call.via = "start" => Len(timers') = Len(timers) + 1
            /\ call.via = "tick" =>
                 /\ call.start \in LiveTimers
                 /\ timers[call.start].key = call.key
                 /\ IsRunning(call.key)
                 /\ intervals[call.key] = call.start
            /\ call.settles = "rejects" =>
                 /\ call.start \in LiveTimers'
                 /\ call.key \in DOMAIN intervals'
                 /\ intervals'[call.key] = call.start
    ]_vars

\* the first invocation of a poller has rejected and two ticks have
\* invoked its callback since; the poller is running
C30_Witness ==
  /\ Len(invoked) >= 3
  /\ invoked[1].via = "start" /\ invoked[1].settles = "rejects"
  /\ invoked[2].via = "tick" /\ invoked[2].start = invoked[1].start
  /\ invoked[2].settles = "rejects"
  /\ invoked[3].via = "tick" /\ invoked[3].start = invoked[1].start
  /\ IsRunning(invoked[1].key)

\* the fields of a text: its maximal runs of characters that are no white
\* space, as pairs of first and last position
FieldRuns(s) ==
  {r \in (DOMAIN s) \X (DOMAIN s) :
     /\ r[1] <= r[2]
     /\ \A k \in r[1]..r[2] : ~IsSpace(s[k])
     /\ r[1] = 1 \/ IsSpace(s[r[1] - 1])
     /\ r[2] = Len(s) \/ IsSpace(s[r[2] + 1])}
HasField(s, n) == Cardinality(FieldRuns(s)) >= n
Field(s, n) ==
  LET runs == FieldRuns(s)
      r == CHOOSE q \in runs : Cardinality({x \in runs : x[1] < q[1]}) = n - 1
  IN SubSeq(s, r[1], r[2])

\* the number a run of digits denotes: the sum of its digits, each times
\* the power of ten of its place
RECURSIVE PlaceSum(_, _)
PlaceSum(digits, k) ==
  IF k = 0 THEN 0
  ELSE DigitValue(digits[k]) * 10 ^ (Len(digits) - k) + PlaceSum(digits, k - 1)

\* text reads as the integer i: a sign or none, then a run of digits that
\* denotes the magnitude of i and that no further digit follows
ReadsAs(text, i) ==
  \E s \in 0..1, k \in 1..Len(text) :
    /\ s = 1 => text[1] \in {"-", "+"}
    /\ s + k <= Len(text)
    /\ \A j \in (s + 1)..(s + k) : IsDigit(text[j])
    /\ s + k < Len(text) => ~IsDigit(text[s + k + 1])
    /\ LET n == PlaceSum(SubSeq(text, s + 1, s + k), k) IN
         i = (IF s = 1 /\ text[1] = "-" THEN 0 - n ELSE n)
ReadsAsInteger(text) ==
  \E s \in 0..1 :
    /\ s = 1 => text[1] \in {"-", "+"}
    /\ s < Len(text)
    /\ IsDigit(text[s + 1])

\* C24: portforward:checkPort changes no registry, signals no process,
\* pushes no event and leaves the suspended stop calls alone; its reply
\* always has success true; it has inUse true exactly when the probe gave
\* a line whose second field reads as an integer, and then pid is that
\* integer and processName the first field; otherwise (the probe failed,
\* gave nothing, or a line without such a field) it is {success, inUse:
\* false} and nothing more.
C24_CheckPortStateless ==
  [][reply'.op = "portforward:checkPort" =>
       LET out == probed'.stdout
           second == Field(out, 2)
           found == /\ ~probed'.failed
                    /\ HasField(out, 2)
                    /\ ReadsAsInteger(second)
       IN /\ UNCHANGED <<procs, logProcesses, portForwardProcesses, stopCalls,
                         stopAllCall, sent, mainWindow, quit>>
          /\ reply'.success
          /\ reply'.inUse <=> found
          /\ reply'.inUse =>
               /\ ReadsAs(second, reply'.pid)
               /\ reply'.processName = Field(out, 1)
          /\ ~reply'.inUse => DOMAIN reply' = {"op", "success", "inUse"}
    ]_vars

\* a probe of a port was answered with the listener's pid and name while a
\* log stream and a port forward were tracked
C24_Witness ==
  /\ reply.op = "portforward:checkPort"
  /\ reply.inUse /\ reply.pid = 77 /\ reply.processName = <<"k">>
  /\ DOMAIN logProcesses # {}
  /\ DOMAIN portForwardProcesses # {}

\* the texts of the log-line elements that are no error lines
DataLines(children) ==
  LET Plain(line) == ~line.error
      lines == SelectSeq(children, Plain)
  IN [i \in 1..Len(lines) |-> lines[i].text]

\* the lines of a sequence of chunks that are not blank, chunk after chunk
RECURSIVE Flatten(_)
Flatten(chunks) ==
  IF chunks = <<>> THEN <<>>
  ELSE LET Visible(line) == \E i \in DOMAIN line : line[i].t # " " IN
         SelectSeq(Head(chunks).data, Visible) \o Flatten(Tail(chunks))

IsSuffix(s, t) ==
  /\ Len(s) <= Len(t)
  /\ \A i \in 1..Len(s) : s[i] = t[Len(t) - Len(s) + i]

C27_OtherSessionIgnored ==
  [][(event'.kind # "none" /\ event'.logId # currentLogId) =>
       UNCHANGED <<logContent, logBuffer, currentLogId, isPaused>>
    ]_vars

\* an event of a stream the component started earlier and has replaced
\* arrives while lines of the current stream are displayed
C27_Witness ==
  /\ event.kind \in {"data", "error", "exit"}
  /\ currentLogId # NoLogId
  /\ event.logId # currentLogId
  /\ \E i \in DOMAIN logRequests :
       logRequests[i] = [op |-> "logs:start", logId |-> event.logId]
  /\ logContent.children # <<>>
  /\ arrived # <<>>

\* C28: the display never holds more than maxLines lines, and it is the
\* most recent lines appended: all of them while they are at most
\* maxLines, the last maxLines of them after that.
C28_DisplayBounded ==
  LET children == logContent.children IN
    /\ Len(children) <= maxLines
    /\ IsSuffix(children, appended)
    /\ Len(appended) <= maxLines => children = appended
    /\ Len(appended) >= maxLines => Len(children) = maxLines

\* two lines came to a full display: the two oldest lines are gone and
\* the new ones are the last
C28_Witness ==
  /\ Len(appended) = maxLines + 2
  /\ Len(logContent.children) = maxLines
  /\ logContent.children[1] = appended[3]
  /\ logContent.children[maxLines] = appended[maxLines + 2]
  /\ appended[2] # appended[3]

\* C22: when no startLogs call is in progress, every log id the component
\* asked the main process to start, and that is not currentLogId, was
\* named in a logs:stop request sent after that logs:start request.
C22_SingleFlight ==
  (logCalls = <<>> /\ microtasks = <<>>) =>
    \A i \in DOMAIN logRequests :
      (logRequests[i].op = "logs:start" /\ logRequests[i].logId # currentLogId) =>
        \E j \in DOMAIN logRequests :
          /\ j > i
          /\ logRequests[j] = [op |-> "logs:stop", logId |-> logRequests[i].logId]

\* C25: once every reply and every pushed event has reached the renderer
\* and no stop is in progress, the keys of activeForwards are the keys of
\* portForwardProcesses.
C25_MirrorConverges ==
  (/\ ~ReplyPending
   /\ pfReplies = <<>>
   /\ pfSeen = Len(sent)
   /\ stopCalls = EmptyBag
   /\ stopAllCall = NoCall)
    => activeForwards = DOMAIN portForwardProcesses

\* the child processes, as far as the handlers do not drive them
Children ==
  \/ \E p \in Pids : ProcBind(p)
  \/ \E p \in Pids, c \in CrashCodes : ProcDie(p, c)

Logs ==
  \/ \E pod \in Pods, ns \in Namespaces, l \in LogIds, o \in SpawnOutcomes :
        LogsStart(pod, ns, l, o)
  \/ \E l \in LogIds : LogsStop(l)
  \/ \E p \in Pids : LogOnExit(p)

PortForward ==
  \/ \E rt \in ResourceTypes, n \in Names, ns \in Namespaces, lp \in LocalPorts,
        rp \in RemotePorts, o \in SpawnOutcomes : PfStart(rt, n, ns, lp, rp, o)
  \/ \E p \in Pids : PfOnExit(p)
  \/ \E p \in Pids : PfOnError(p)

Stop ==
  \/ \E p \in Pids : PfStopCall(procs[p].id)
  \/ \E c \in BagToSet(stopCalls), ok \in BOOLEAN : PfStopExec(c, ok)
  \/ \E c \in BagToSet(stopCalls) : PfStopResume(c)

StopAll ==
  \/ PfStopAllCall
  \/ \E ok \in BOOLEAN : PfStopAllExec(ok)
  \/ PfStopAllResume

Env == Tick \/ Children

\* the stdout streams of the children
Streams ==
  \/ \E p \in Pids : ProcWrite(p)
  \/ \E p \in Pids : LogOnData(p)
  \/ \E p \in Pids : PfOnData(p)

Next ==
  Env \/ WindowClosed \/ Logs \/ PortForward \/ Streams \/ Stop \/ StopAll \/ BeforeQuit
Spec == Init /\ [][Next]_vars

NextStop == Env \/ WindowClosed \/ Logs \/ PortForward \/ Stop
SpecStop == Init /\ [][NextStop]_vars

NextLogs ==
  \/ \E p \in Pids, c \in CrashCodes : ProcDie(p, c)
  \/ WindowClosed
  \/ Logs
SpecLogs == Init /\ [][NextLogs]_vars

NextStopAll ==
  \/ TickWithin(MaxStopAllProcs)
  \/ Children
  \/ \E rt \in ResourceTypes, n \in Names, ns \in Namespaces, lp \in LocalPorts,
        rp \in RemotePorts, o \in SpawnOutcomes :
          PfStartWithin(MaxStopAllProcs, rt, n, ns, lp, rp, o)
  \/ \E p \in Pids : PfOnExit(p)
  \/ \E p \in Pids : PfOnError(p)
  \/ StopAll
SpecStopAll == Init /\ [][NextStopAll]_vars

NextQuit == Env \/ WindowClosed \/ Logs \/ PortForward \/ Stop \/ BeforeQuit
SpecQuit == Init /\ [][NextQuit]_vars

\* port forwards that are started with differing parameters, stopped and
\* listed
NextList ==
  \/ Env
  \/ \E rt \in ResourceTypes, n \in Names, ns \in Namespaces, lp \in LocalPorts,
        rp \in ListRemotePorts, o \in SpawnOutcomes : PfStart(rt, n, ns, lp, rp, o)
  \/ \E p \in Pids : PfOnExit(p)
  \/ \E p \in Pids : PfOnError(p)
  \/ Stop
SpecList == Init /\ [][NextList]_vars

\* log streams and port forwards with their output: sessions that are
\* started, write, end on their own and are reported
NextStreams ==
  \/ \E p \in Pids, c \in CrashCodes : ProcDie(p, c)
  \/ WindowClosed
  \/ \E pod \in Pods, ns \in Namespaces, l \in StreamLogIds :
        LogsStart(pod, ns, l, "running")
  \/ \E p \in Pids : LogOnExit(p)
  \/ \E rt \in ResourceTypes, n \in Names, ns \in Namespaces, lp \in StreamPorts,
        rp \in RemotePorts : PfStart(rt, n, ns, lp, rp, "running")
  \/ \E p \in Pids : PfOnExit(p)
  \/ Streams
SpecStreams == Init /\ [][NextStreams]_vars

\* PollerService under any sequence of calls and ticks
NextPoller ==
  \/ \E k \in PollerKeys, s \in Settles : PollerStart(k, s)
  \/ \E k \in PollerKeys : PollerStop(k)
  \/ PollerStopAll
  \/ \E i \in DOMAIN timers, s \in Settles : TimerTick(i, s)
SpecPoller == Init /\ [][NextPoller]_vars

\* the terminal ids that createTerminal has given out
TerminalIds == {TerminalId(n) : n \in 1..terminalCounter}

\* TerminalComponent with the replies and exit events of the main process
NextTerminal ==
  \/ \E pod \in Pods, ns \in Namespaces : TermCreate(pod, ns)
  \/ \E c \in BagToSet(termCalls), ok \in BOOLEAN : TermCreateResume(c, ok)
  \/ \E id \in TerminalIds : TermClose(id)
  \/ \E id \in TerminalIds : TermOnExit(id)
  \/ \E c \in BagToSet(termCalls) : TermCloseResume(c)
SpecTerminal == Init /\ [][NextTerminal]_vars


\* port probes while sessions are started
NextCheckPort ==
  \/ \E pod \in Pods, ns \in Namespaces, l \in StreamLogIds :
        LogsStart(pod, ns, l, "running")
  \/ \E rt \in ResourceTypes, n \in Names, ns \in Namespaces, lp \in StreamPorts,
        rp \in RemotePorts : PfStart(rt, n, ns, lp, rp, "running")
  \/ \E port \in StreamPorts, probe \in ProbeOutputs : PfCheckPort(port, probe)
SpecCheckPort == Init /\ [][NextCheckPort]_vars


\* LogsComponent under any sequence of events, calls and replies
NextLogView ==
  \/ Tick
  \/ \E l \in LogEventIds, sh \in ViewShapes : ViewOnData(l, sh)
  \/ \E l \in LogEventIds, sh \in ViewShapes : ViewOnError(l, sh)
  \/ \E l \in LogEventIds : ViewOnExit(l)
  \/ TogglePause
  \/ ClearLog
  \/ \E pod \in Pods, ns \in Namespaces : StartLogs(pod, ns)
  \/ \E pod \in Pods, ns \in Namespaces : OnPodContextLogs(pod, ns)
  \/ StartLogsResume
  \/ \E ok \in BOOLEAN : LogsReply(ok)
SpecLogView == Init /\ [][NextLogView]_vars

\* one log stream that prints bursts of lines while the display has room
\* for them, and pairs of lines at any time
NextLogTrim ==
  \/ \E pod \in Pods, ns \in Namespaces : currentLogId = NoLogId /\ StartLogs(pod, ns)
  \/ StartLogsResume
  \/ LogsReply(TRUE)
  \/ \E sh \in TrimShapes :
        /\ sh = "many" =>
             Len(logContent.children) + Len(LinesOf(logBuffer)) + ManyLines <= maxLines
        /\ ViewOnDataWithin(MaxBursts, LogId("pod-a", 0), sh)
  \/ TogglePause
SpecLogTrim == Init /\ [][NextLogTrim]_vars


\* the port forwards of the manager: started, ended, stopped, and reported
\* to the renderer; a reply is sent as soon as its handler has returned,
\* and at most MaxPending replies are on their way
NextMirror ==
  \/ ManagerReplySent
  \/ ~ReplyPending /\ \E p \in Pids, c \in CrashCodes : ProcDie(p, c)
  \/ ~ReplyPending /\ Len(pfReplies) < MaxPending /\
       \E rt \in ResourceTypes, n \in Names, ns \in Namespaces, lp \in StreamPorts,
          rp \in RemotePorts, o \in {"running", "error"} : PfStart(rt, n, ns, lp, rp, o)
  \/ ~ReplyPending /\ \E p \in Pids : PfOnExit(p)
  \/ ~ReplyPending /\ \E p \in Pids : PfOnError(p)
  \/ ~ReplyPending /\ Len(pfReplies) < MaxPending /\ Stop
  \/ ~ReplyPending /\ ManagerOnEvent
  \/ ~ReplyPending /\ ManagerOnReply
SpecMirror == Init /\ [][NextMirror]_vars

====
